---- MODULE Spec2Model ----
(***************************************************************************)
(* The Streamlit QR code generator of src/qrcode.py as a state machine.    *)
(*                                                                         *)
(* One action is one interaction cycle: a top-to-bottom run of the script  *)
(* for one browser session.  The state the script keeps between cycles is  *)
(* st.session_state (the history list) and the values of the sidebar       *)
(* widgets; the text fields and the uploaded file are the inputs of the    *)
(* cycle.  A string is a sequence of one-character strings.  The tokens    *)
(* "A", "B" and "L" stand for well-formed URLs ("L" for one that is too    *)
(* long for any QR symbol, so that the encoder raises), "x" for text that  *)
(* is no URL.                                                              *)
(***************************************************************************)
EXTENDS Naturals, Sequences, FiniteSets

\* ------------------------------------------------------------------ bounds

\* Interaction cycles explored, over all sessions.
MaxCycles == 2
\* Valid URLs of the longest batch text.
LongBatch == 11

\* ------------------------------------------------------- program constants

\* The history cap of lines 81, 170-171, 225 and 251.
HistoryCap == 10

Sessions == {"s1", "s2"}
NoKeys == [k \in {} |-> <<>>]

\* The sidebar's values on a fresh session (the widgets' defaults).
DefaultConfig ==
    [fg_color |-> "#000000", bg_color |-> "#FFFFFF", box_size |-> 10,
     border_size |-> 4, error_correction |-> "Low (7%)"]
\* Another setting of the sidebar, within the widgets' ranges.
OtherConfig ==
    [fg_color |-> "#FF0000", bg_color |-> "#FFFFFF", box_size |-> 5,
     border_size |-> 1, error_correction |-> "Quartile (25%)"]
Configs == {DefaultConfig, OtherConfig}

error_correction_map ==
    [l \in {"Low (7%)", "Medium (15%)", "Quartile (25%)", "High (30%)"} |->
        CASE l = "Low (7%)" -> "ERROR_CORRECT_L"
          [] l = "Medium (15%)" -> "ERROR_CORRECT_M"
          [] l = "Quartile (25%)" -> "ERROR_CORRECT_Q"
          [] l = "High (30%)" -> "ERROR_CORRECT_H"]

\* ------------------------------------------------------------------ strings

Whitespace == {" ", "\n"}

RECURSIVE LStrip(_)
LStrip(s) ==
    IF s # <<>> /\ Head(s) \in Whitespace THEN LStrip(Tail(s)) ELSE s

RECURSIVE RStrip(_)
RStrip(s) ==
    IF s # <<>> /\ s[Len(s)] \in Whitespace
    THEN RStrip(SubSeq(s, 1, Len(s) - 1)) ELSE s

\* str.strip()
Strip(s) == RStrip(LStrip(s))

\* str.split('\n'): the pieces between the newlines, the empty ones included.
RECURSIVE Split(_)
Split(s) ==
    IF \A i \in 1..Len(s) : s[i] # "\n" THEN <<s>>
    ELSE LET i == CHOOSE j \in 1..Len(s) :
                     s[j] = "\n" /\ \A m \in 1..(j - 1) : s[m] # "\n"
         IN  <<SubSeq(s, 1, i - 1)>> \o Split(SubSeq(s, i + 1, Len(s)))

\* The inverse direction, used to build the batch inputs: lines joined by "\n".
RECURSIVE JoinLines(_)
JoinLines(ls) ==
    IF ls = <<>> THEN <<>>
    ELSE IF Len(ls) = 1 THEN ls[1]
    ELSE ls[1] \o <<"\n">> \o JoinLines(Tail(ls))

\* validators.url: the well-formed URLs among the strings of the model.
ValidUrl(u) == u \in {<<"A">>, <<"B">>, <<"L">>}

\* qr.add_data / qr.make(fit=True): raises DataOverflowError past version 40.
EncoderRaises(data) == data = <<"L">>

\* Image.open(logo_file): raises on a file that is no image.
ImageOpenRaises(file) == file = "corrupt"

\* ------------------------------------------------------------------- inputs

UrlInputs == {<<>>, <<"x">>, <<"A">>, <<"L">>}
LogoFiles == {"none", "png", "corrupt"}
\* The batch texts: nothing, white space only, a line that is no URL, one URL,
\* one URL the encoder rejects, padded lines around a blank one, and a URL
\* after a line that is skipped or fails ...
ShortTexts ==
    {JoinLines(ls) : ls \in
        {<<>>, <<<<" ">>, <<" ">>>>, <<<<"x">>>>, <<<<"A">>>>, <<<<"L">>>>,
         <<<<" ", "B", " ">>, <<>>, <<"A">>>>, <<<<"x">>, <<"A">>>>,
         <<<<"L">>, <<"A">>>>}}
\* ... and a long one: n URLs, a blank line and a line that is no URL.
LongLines(n) ==
    [i \in 1..(n + 2) |->
        IF i = 2 THEN <<" ">>
        ELSE IF i = 4 THEN <<"x">>
        ELSE IF i % 2 = 1 THEN <<"A">> ELSE <<" ", "B">>]
LongTexts == {JoinLines(LongLines(LongBatch))}
BatchTexts == ShortTexts \cup LongTexts

\* ------------------------------------------------------------- list methods

Min(a, b) == IF a < b THEN a ELSE b

\* list[:n]
FirstN(l, n) == SubSeq(l, 1, Min(n, Len(l)))

\* list.insert(0, e)
Insert0(l, e) == <<e>> \o l

\* Mutant of Pop: list.pop(0), which removes the newest entry.
Pop_RemovesNewest(l) == Tail(l)

\* list.pop(): removes the last element.
Pop(l) == SubSeq(l, 1, Len(l) - 1)

RECURSIVE Reverse(_)
Reverse(l) == IF l = <<>> THEN <<>> ELSE Reverse(Tail(l)) \o <<Head(l)>>

\* ----------------------------------------------------------- history entries

DigitChar == <<"0", "1", "2", "3", "4", "5", "6", "7", "8", "9">>

\* The decimal text an f-string gives an int.
RECURSIVE Digits(_)
Digits(n) ==
    IF n < 10 THEN <<DigitChar[n + 1]>>
    ELSE Digits(n \div 10) \o <<DigitChar[(n % 10) + 1]>>

\* f"Size: {box_size}, Border: {border_size}, Error: {error_correction}"
SettingsString(cfg) ==
    <<"Size: ">> \o Digits(cfg.box_size) \o <<", Border: ">>
        \o Digits(cfg.border_size) \o <<", Error: ", cfg.error_correction>>

\* f"With Logo, Size: {box_size}, Border: {border_size}"
LogoSettingsString(cfg) ==
    <<"With Logo, Size: ">> \o Digits(cfg.box_size) \o <<", Border: ">>
        \o Digits(cfg.border_size)

\* What the encoder is called with: the data and the parameters of QRCode(...).
EncoderCall(data, level, cfg) ==
    [data |-> data, error_correction |-> level, box_size |-> cfg.box_size,
     border |-> cfg.border_size]

\* The PNG bytes: determined by the call, the colours and the pasted logo.
PngBytes(call, cfg, logo) ==
    [qr |-> call, fill_color |-> cfg.fg_color, back_color |-> cfg.bg_color,
     logo |-> logo]

HistoryEntry(url, image, settings) ==
    [url |-> url, image |-> image, settings |-> settings]

Message(level, text, about) == [level |-> level, text |-> text, about |-> about]

\* What a handler leaves behind: the history list, the messages it showed, the
\* calls it made to the encoder and the entries it created, in order.
Outcome(h, msgs, calls, added) ==
    [history |-> h, msgs |-> msgs, calls |-> calls, added |-> added]

\* ------------------------------------------------------------------ tab1

\* Mutant of TrySingle: the insert of lines 76-82 placed before the encoder
\* runs, so that a failed generation leaves its entry behind.
TrySingle_InsertsFirst(h, cfg, url_input) ==
    LET call == EncoderCall(url_input,
                            error_correction_map[cfg.error_correction], cfg)
        entry == HistoryEntry(url_input, PngBytes(call, cfg, "none"),
                              SettingsString(cfg))
        h1 == Insert0(h, entry)
        h2 == IF Len(h1) > HistoryCap THEN Pop(h1) ELSE h1
    IN  IF EncoderRaises(url_input)
        THEN Outcome(h2, <<Message("error", "An error occurred while generating the QR code", url_input)>>,
                     <<call>>, <<>>)
        ELSE Outcome(h2, <<Message("success", "QR Code generated successfully!", url_input)>>,
                     <<call>>, <<entry>>)

\* Lines 60-100: the try block of the single URL handler and its except.
TrySingle(h, cfg, url_input) ==
    LET call == EncoderCall(url_input,
                            error_correction_map[cfg.error_correction], cfg)
        entry == HistoryEntry(url_input, PngBytes(call, cfg, "none"),
                              SettingsString(cfg))
        h1 == Insert0(h, entry)
        h2 == IF Len(h1) > HistoryCap THEN Pop(h1) ELSE h1
    IN  IF EncoderRaises(url_input)
        THEN Outcome(h, <<Message("error", "An error occurred while generating the QR code", url_input)>>,
                     <<call>>, <<>>)
        ELSE Outcome(h2, <<Message("success", "QR Code generated successfully!", url_input)>>,
                     <<call>>, <<entry>>)

\* Mutant of SingleHandler: the validators.url branch of line 57 left out.
SingleHandler_NoValidation(h, cfg, url_input) ==
    IF url_input = <<>>
    THEN Outcome(h, <<Message("error", "Please enter a URL first!", url_input)>>, <<>>, <<>>)
    ELSE TrySingle(h, cfg, url_input)

\* Lines 54-100.
SingleHandler(h, cfg, url_input) ==
    IF url_input = <<>>
    THEN Outcome(h, <<Message("error", "Please enter a URL first!", url_input)>>, <<>>, <<>>)
    ELSE IF ~ValidUrl(url_input)
    THEN Outcome(h, <<Message("error", "Please enter a valid URL", url_input)>>, <<>>, <<>>)
    ELSE TrySingle(h, cfg, url_input)

\* ------------------------------------------------------------------ tab2

\* Line 116.
BatchLines(batch_urls) ==
    LET pieces == Split(batch_urls)
        stripped == [i \in 1..Len(pieces) |-> Strip(pieces[i])]
    IN  SelectSeq(stripped, LAMBDA u : u # <<>>)

\* Lines 117-124.
ValidUrls(urls) == SelectSeq(urls, ValidUrl)
InvalidUrls(urls) == SelectSeq(urls, LAMBDA u : ~ValidUrl(u))

\* Mutant of LoopBody: a failed generation ends the batch's work: the URLs
\* after it get the same error and no entry.
LoopBody_FailureSticks(st, cfg, url, interrupted) ==
    LET call == EncoderCall(url, error_correction_map[cfg.error_correction], cfg)
        entry == HistoryEntry(url, PngBytes(call, cfg, "none"), SettingsString(cfg))
        failed == \E i \in 1..Len(st.msgs) : st.msgs[i].level = "error"
    IN  IF EncoderRaises(url) \/ failed
        THEN Outcome(st.history,
                     IF interrupted THEN st.msgs
                     ELSE Append(st.msgs, Message("error", "Error generating QR code for", url)),
                     Append(st.calls, call), st.added)
        ELSE Outcome(Insert0(st.history, entry), st.msgs,
                     Append(st.calls, call), Append(st.added, entry))

\* Lines 134-168: one iteration of the generation loop.  An iteration that is
\* interrupted stops at its first Streamlit call (st.image after the insert,
\* st.error in the except), which raises the script runner's rerun or stop
\* exception; that is no Exception, so nothing catches it.
LoopBody(st, cfg, url, interrupted) ==
    LET call == EncoderCall(url, error_correction_map[cfg.error_correction], cfg)
        entry == HistoryEntry(url, PngBytes(call, cfg, "none"), SettingsString(cfg))
    IN  IF EncoderRaises(url)
        THEN Outcome(st.history,
                     IF interrupted THEN st.msgs
                     ELSE Append(st.msgs, Message("error", "Error generating QR code for", url)),
                     Append(st.calls, call), st.added)
        ELSE Outcome(Insert0(st.history, entry), st.msgs,
                     Append(st.calls, call), Append(st.added, entry))

\* Lines 133-168: iterations i..n of the loop; the script is abandoned in
\* iteration stop (0: never).
RECURSIVE GenerationLoop(_, _, _, _, _, _)
GenerationLoop(st, cfg, valid_urls, i, n, stop) ==
    IF i > n THEN st
    ELSE GenerationLoop(LoopBody(st, cfg, valid_urls[i], i = stop),
                        cfg, valid_urls, i + 1, n, stop)

\* Mutant of Truncate: history[-10:], which keeps the oldest entries.
Truncate_KeepsTail(h) ==
    IF Len(h) > HistoryCap THEN SubSeq(h, Len(h) - HistoryCap + 1, Len(h)) ELSE h

\* Lines 170-171.
Truncate(h) == IF Len(h) > HistoryCap THEN FirstN(h, HistoryCap) ELSE h

\* Lines 126-130: the messages before the loop.
BatchNotices(valid_urls, invalid_urls) ==
    (IF invalid_urls # <<>>
     THEN <<Message("warning", "Skipping invalid URL(s)", invalid_urls)>> ELSE <<>>)
    \o (IF valid_urls # <<>>
        THEN <<Message("success", "Generating QR code(s)...", valid_urls)>> ELSE <<>>)

\* Lines 112-171.  stop = 0: the script runs on; stop = j > 0: the script is
\* abandoned in iteration j of the loop, and lines 170-171 are not reached.
BatchHandler(h, cfg, batch_urls, stop) ==
    IF Strip(batch_urls) = <<>>
    THEN Outcome(h, <<Message("error", "Please enter at least one URL!", <<>>)>>, <<>>, <<>>)
    ELSE LET urls == BatchLines(batch_urls)
             valid_urls == ValidUrls(urls)
             invalid_urls == InvalidUrls(urls)
             st0 == Outcome(h, BatchNotices(valid_urls, invalid_urls), <<>>, <<>>)
         IN  IF valid_urls = <<>> THEN st0
             ELSE IF stop = 0
             THEN LET st == GenerationLoop(st0, cfg, valid_urls, 1, Len(valid_urls), 0)
                  IN  [st EXCEPT !.history = Truncate(st.history)]
             ELSE GenerationLoop(st0, cfg, valid_urls, 1, stop, stop)

\* ------------------------------------------------------------------ tab3

\* Mutant of TryLogo: the level of the sidebar instead of ERROR_CORRECT_H.
TryLogo_SidebarLevel(h, cfg, logo_url, logo_file) ==
    LET call == EncoderCall(logo_url,
                            error_correction_map[cfg.error_correction], cfg)
        entry == HistoryEntry(logo_url, PngBytes(call, cfg, logo_file),
                              LogoSettingsString(cfg))
        h1 == Insert0(h, entry)
        h2 == IF Len(h1) > HistoryCap THEN Pop(h1) ELSE h1
    IN  IF EncoderRaises(logo_url) \/ ImageOpenRaises(logo_file)
        THEN Outcome(h, <<Message("error", "An error occurred", logo_url)>>, <<call>>, <<>>)
        ELSE Outcome(h2, <<Message("success", "QR Code with logo generated successfully!", logo_url)>>,
                     <<call>>, <<entry>>)

\* Lines 194-244: the try block of the logo handler and its except.
TryLogo(h, cfg, logo_url, logo_file) ==
    LET call == EncoderCall(logo_url, "ERROR_CORRECT_H", cfg)
        entry == HistoryEntry(logo_url, PngBytes(call, cfg, logo_file),
                              LogoSettingsString(cfg))
        h1 == Insert0(h, entry)
        h2 == IF Len(h1) > HistoryCap THEN Pop(h1) ELSE h1
    IN  IF EncoderRaises(logo_url)
        THEN Outcome(h, <<Message("error", "An error occurred", logo_url)>>, <<call>>, <<>>)
        ELSE IF ImageOpenRaises(logo_file)
        THEN Outcome(h, <<Message("error", "An error occurred", logo_url)>>, <<call>>, <<>>)
        ELSE Outcome(h2, <<Message("success", "QR Code with logo generated successfully!", logo_url)>>,
                     <<call>>, <<entry>>)

\* Lines 186-244.
LogoHandler(h, cfg, logo_url, logo_file) ==
    IF logo_url = <<>>
    THEN Outcome(h, <<Message("error", "Please enter a URL!", logo_url)>>, <<>>, <<>>)
    ELSE IF ~ValidUrl(logo_url)
    THEN Outcome(h, <<Message("error", "Please enter a valid URL!", logo_url)>>, <<>>, <<>>)
    ELSE IF logo_file = "none"
    THEN Outcome(h, <<Message("error", "Please upload a logo image!", logo_url)>>, <<>>, <<>>)
    ELSE TryLogo(h, cfg, logo_url, logo_file)

\* The iterations in which a batch cycle can be abandoned: any of the loop's.
StopPoints(batch_urls) ==
    IF Strip(batch_urls) = <<>> THEN {}
    ELSE 1..Len(ValidUrls(BatchLines(batch_urls)))

\* ---------------------------------------------------------------- the script

VARIABLES
    session_state,  \* per session: st.session_state, a record with key "history"
                    \* once line 10 has run
    sidebar,        \* per session: the values of the sidebar widgets
    last,           \* the cycle that ran last: its inputs and what it did
    created,        \* per session: every entry created so far, newest first
    cycles          \* cycles run so far

vars == <<session_state, sidebar, last, created, cycles>>

\* Mutant of InitHistory: line 10 without the test of line 9.
InitHistory_AlwaysResets(ss) == [history |-> <<>>]

\* Lines 9-10.
InitHistory(ss) == IF "history" \in DOMAIN ss THEN ss ELSE [history |-> <<>>]

\* Lines 246-263: the entries the history section renders.
HistorySection(h) == IF h # <<>> THEN FirstN(h, HistoryCap) ELSE <<>>

\* The history list of a session (empty before the session's first cycle).
History(ss) == IF "history" \in DOMAIN ss THEN ss.history ELSE <<>>

Init ==
    /\ session_state = [s \in Sessions |-> NoKeys]
    /\ sidebar = [s \in Sessions |-> DefaultConfig]
    /\ last = [sess |-> "none", tab |-> "start", input |-> <<>>, file |-> "none",
               cfg |-> DefaultConfig, before |-> [s \in Sessions |-> NoKeys],
               abandoned |-> FALSE, msgs |-> <<>>, calls |-> <<>>,
               added |-> <<>>, shown |-> <<>>]
    /\ created = [s \in Sessions |-> <<>>]
    /\ cycles = 0

\* One run of the script for session s: lines 9-10, the handler of the button
\* that was pressed (out is what it did), then the history section unless the
\* run was abandoned.
Cycle(s, tab, input, file, cfg, out, abandoned) ==
    /\ cycles' = cycles + 1
    /\ sidebar' = [sidebar EXCEPT ![s] = cfg]
    /\ session_state' = [session_state EXCEPT ![s] = [history |-> out.history]]
    /\ created' = [created EXCEPT ![s] = Reverse(out.added) \o created[s]]
    /\ last' = [sess |-> s, tab |-> tab, input |-> input, file |-> file,
                cfg |-> cfg, before |-> session_state, abandoned |-> abandoned,
                msgs |-> out.msgs, calls |-> out.calls, added |-> out.added,
                shown |-> IF abandoned THEN <<>> ELSE HistorySection(out.history)]

\* A cycle with no button pressed: the user changed a sidebar widget (lines
\* 15-32) or the page was loaded.
ChangeSetting(s, c) ==
    LET h == InitHistory(session_state[s]).history
    IN  /\ cycles < MaxCycles
        /\ Cycle(s, "none", <<>>, "none", c, Outcome(h, <<>>, <<>>, <<>>), FALSE)

\* "Generate QR Code" pressed (line 54).
SingleCycle(s, url_input) ==
    LET h == InitHistory(session_state[s]).history
    IN  /\ cycles < MaxCycles
        /\ Cycle(s, "single", url_input, "none", sidebar[s],
                 SingleHandler(h, sidebar[s], url_input), FALSE)

\* "Generate Batch QR Codes" pressed (line 112), the script runs to its end.
BatchCycle(s, batch_urls) ==
    LET h == InitHistory(session_state[s]).history
    IN  /\ cycles < MaxCycles
        /\ Cycle(s, "batch", batch_urls, "none", sidebar[s],
                 BatchHandler(h, sidebar[s], batch_urls, 0), FALSE)

\* "Generate Batch QR Codes" pressed, and the user acts on the page while the
\* loop runs: the script runner raises its rerun exception out of the next
\* Streamlit call, in iteration stop of the loop.
BatchAbandoned(s, batch_urls, stop) ==
    LET h == InitHistory(session_state[s]).history
    IN  /\ cycles < MaxCycles
        /\ Strip(batch_urls) # <<>>
        /\ stop \in 1..Len(ValidUrls(BatchLines(batch_urls)))
        /\ Cycle(s, "batch", batch_urls, "none", sidebar[s],
                 BatchHandler(h, sidebar[s], batch_urls, stop), TRUE)

\* "Generate QR Code with Logo" pressed (line 186).
LogoCycle(s, logo_url, logo_file) ==
    LET h == InitHistory(session_state[s]).history
    IN  /\ cycles < MaxCycles
        /\ Cycle(s, "logo", logo_url, logo_file, sidebar[s],
                 LogoHandler(h, sidebar[s], logo_url, logo_file), FALSE)

Next ==
    \/ \E s \in Sessions, c \in Configs : ChangeSetting(s, c)
    \/ \E s \in Sessions, u \in UrlInputs : SingleCycle(s, u)
    \/ \E s \in Sessions, t \in BatchTexts : BatchCycle(s, t)
    \/ \E s \in Sessions, t \in BatchTexts :
           \E j \in StopPoints(t) : BatchAbandoned(s, t, j)
    \/ \E s \in Sessions, u \in UrlInputs, f \in LogoFiles : LogoCycle(s, u, f)

Spec == Init /\ [][Next]_vars

\* The states the model ranges over.
TypeOK ==
    /\ cycles \in 0..MaxCycles
    /\ \A s \in Sessions : sidebar[s] \in Configs
    /\ \A s \in Sessions : DOMAIN session_state[s] \subseteq {"history"}

\* ------------------------------------------------------------- the claims

\* The cycle that ran last, seen from the state it left.
Ran == last.tab # "start"
Before == History(last.before[last.sess])
After == History(session_state[last.sess])

Urls(entries) == [i \in 1..Len(entries) |-> entries[i].url]
CallData(calls) == [i \in 1..Len(calls) |-> calls[i].data]

Shown(level, text) ==
    \E i \in 1..Len(last.msgs) :
        last.msgs[i].level = level /\ last.msgs[i].text = text
ShownAbout(level, text, about) ==
    \E i \in 1..Len(last.msgs) :
        /\ last.msgs[i].level = level
        /\ last.msgs[i].text = text
        /\ last.msgs[i].about = about
ShownLevel(level) == \E i \in 1..Len(last.msgs) : last.msgs[i].level = level

GenerationErrors ==
    {"An error occurred while generating the QR code",
     "Error generating QR code for", "An error occurred"}
GenerationSuccess ==
    {"QR Code generated successfully!", "QR Code with logo generated successfully!"}
\* The URLs the last cycle reported a generation error for.
FailedUrls ==
    {last.msgs[i].about : i \in {j \in 1..Len(last.msgs) :
        last.msgs[j].level = "error" /\ last.msgs[j].text \in GenerationErrors}}
ReportedSuccess ==
    \E i \in 1..Len(last.msgs) :
        last.msgs[i].level = "success" /\ last.msgs[i].text \in GenerationSuccess

\* C1: after every cycle, whatever the cycles were, the history of every
\* session holds at most 10 entries.
C1_HistoryAtMostTen ==
    \A s \in Sessions : Len(History(session_state[s])) <= HistoryCap

\* C2: after every cycle the history is the first 10 of all the entries the
\* session created so far, newest first.
C2_HistoryIsNewestTen ==
    \A s \in Sessions : History(session_state[s]) = FirstN(created[s], HistoryCap)

\* C3: an entry is created exactly on a successful generation.  A single or
\* logo cycle that reports success has put exactly one entry at the front,
\* with the URL that was encoded and the settings string of the cycle's
\* configuration; one that does not report success reports an error and
\* leaves the history alone.  A batch cycle creates one entry per URL the
\* encoder was called for and did not fail on, in order, none for a URL it
\* reported an error for, and these entries are the front of the history,
\* which is shorter than the new and the old entries together only when it
\* was cut to 10.
C3_EntryOnSuccessOnly ==
    Ran =>
        LET new == last.added
            m == Min(Len(new), Len(After))
        IN  /\ last.tab = "none" => new = <<>>
            /\ last.tab \in {"single", "logo"} =>
                 IF ReportedSuccess
                 THEN /\ Len(After) >= 1
                      /\ new = <<After[1]>>
                      /\ After[1].url = last.input
                      /\ last.calls = <<After[1].image.qr>>
                      /\ After[1].image.qr.data = last.input
                      /\ After[1].settings =
                            IF last.tab = "single" THEN SettingsString(last.cfg)
                            ELSE LogoSettingsString(last.cfg)
                      /\ Tail(After) =
                            IF Len(Before) >= HistoryCap THEN Pop(Before) ELSE Before
                 ELSE /\ ShownLevel("error")
                      /\ new = <<>>
                      /\ After = Before
            /\ last.tab = "batch" =>
                 /\ \A i \in 1..Len(new) :
                        /\ new[i].url \notin FailedUrls
                        /\ new[i].image.qr.data = new[i].url
                        /\ new[i].settings = SettingsString(last.cfg)
                 /\ ~last.abandoned =>
                        Urls(new) = SelectSeq(CallData(last.calls),
                                              LAMBDA u : u \notin FailedUrls)
                 /\ FirstN(After, m) = FirstN(Reverse(new), m)
                 /\ Len(After) <= Len(new) + Len(Before)
                 /\ Len(After) < Len(new) + Len(Before) => Len(After) = HistoryCap

\* C3's case: a single generation succeeds on a full history.
C3_Witness ==
    /\ last.tab = "single"
    /\ ReportedSuccess
    /\ Len(Before) = HistoryCap

\* Whether the last cycle was given a URL that is empty or fails the check.
BadUrlCycle ==
    \/ /\ last.tab \in {"single", "logo"}
       /\ (last.input = <<>> \/ ~ValidUrl(last.input))
    \/ /\ last.tab = "batch"
       /\ (Strip(last.input) = <<>> \/ InvalidUrls(BatchLines(last.input)) # <<>>)

C6_ConfigNotPersisted ==
    Ran =>
        LET n == Len(last.added)
        IN  /\ last.tab = "none" => (last.added = <<>> /\ After = Before)
            /\ \A s \in Sessions : DOMAIN session_state[s] \subseteq {"history"}
            /\ \A i \in 1..n :
                   /\ last.added[i].settings = last.added[1].settings
                   /\ last.added[i].image.fill_color = last.cfg.fg_color
                   /\ last.added[i].image.back_color = last.cfg.bg_color
                   /\ last.added[i].image.qr.box_size = last.cfg.box_size
                   /\ last.added[i].image.qr.border = last.cfg.border_size
            /\ \A i \in (n + 1)..Len(After) :
                   i - n <= Len(Before) /\ After[i] = Before[i - n]

\* C6's case: the user changes the sidebar, and nothing else, on a session
\* whose history holds entries.
C6_Witness ==
    /\ last.tab = "none"
    /\ last.cfg = OtherConfig
    /\ Len(Before) >= 2

\* C7: a cycle never changes another session's state; a session has its
\* history from its first cycle on, which starts it empty; no later cycle
\* resets it: an old entry stays, behind the new ones, unless that puts it
\* past the first 10.
C7_HistoryBelongsToSession ==
    Ran =>
        LET n == Len(last.added)
        IN  /\ \A s \in Sessions \ {last.sess} : session_state[s] = last.before[s]
            /\ "history" \in DOMAIN session_state[last.sess]
            /\ \A s \in Sessions :
                   "history" \notin DOMAIN session_state[s] => created[s] = <<>>
            /\ "history" \notin DOMAIN last.before[last.sess] => Len(After) <= n
            /\ \A i \in 1..Len(Before) :
                   \/ i + n <= Len(After) /\ After[i + n] = Before[i]
                   \/ i + n > HistoryCap

\* C7's case: a session runs its first cycle, which generates, while the
\* other session's history holds entries.
C7_Witness ==
    /\ Ran
    /\ "history" \notin DOMAIN last.before[last.sess]
    /\ last.added # <<>>
    /\ \E s \in Sessions \ {last.sess} : History(session_state[s]) # <<>>

C9_LogoPreconditions ==
    (Ran /\ last.tab = "logo") =>
        IF last.input = <<>>
        THEN /\ last.msgs = <<Message("error", "Please enter a URL!", last.input)>>
             /\ last.calls = <<>> /\ After = Before
        ELSE IF ~ValidUrl(last.input)
        THEN /\ last.msgs = <<Message("error", "Please enter a valid URL!", last.input)>>
             /\ last.calls = <<>> /\ After = Before
        ELSE IF last.file = "none"
        THEN /\ last.msgs = <<Message("error", "Please upload a logo image!", last.input)>>
             /\ last.calls = <<>> /\ After = Before
        ELSE /\ Len(last.calls) = 1
             /\ last.calls[1].data = last.input
             /\ last.calls[1].error_correction = "ERROR_CORRECT_H"
             /\ \A i \in 1..Len(last.added) :
                    /\ last.added[i] = After[1]
                    /\ After[1].image.qr.error_correction = "ERROR_CORRECT_H"
                    /\ After[1].settings[1] = "With Logo, Size: "
                    /\ \A j \in 1..Len(After[1].settings) :
                           /\ After[1].settings[j] \notin DOMAIN error_correction_map
                           /\ After[1].settings[j] # ", Error: "

\* C9's case: a logo generation succeeds while the sidebar asks for a level
\* other than H.
C9_Witness ==
    /\ last.tab = "logo"
    /\ ReportedSuccess
    /\ last.cfg.error_correction = "Quartile (25%)"

\* C10: the cap survives a batch cycle that is abandoned in its loop: no cycle
\* starts from more than 10 entries, an abandoned cycle leaves at most 10, and
\* a single or logo generation ends with at most 10.
C10_CapSurvivesAbandonedBatch ==
    Ran =>
        /\ Len(Before) <= HistoryCap
        /\ last.abandoned => Len(After) <= HistoryCap
        /\ last.tab \in {"single", "logo"} => Len(After) <= HistoryCap

====
